---- MODULE Spec2Model ----
(***************************************************************************)
(* State-machine model of src/photo/photo_async.cpp: the 21 *_Async entry  *)
(* points of the photo module.  Every entry point has the same shape       *)
(*                                                                         *)
(*     BEGIN_WRAP                                                          *)
(*     cv::Mat _dst;                                                       *)
(*     cv::<routine>(<inputs>, _dst, <scalars>);                           *)
(*     callback(new Mat{new cv::Mat(_dst)});                               *)
(*     END_WRAP                                                            *)
(*                                                                         *)
(* A call is executed statement by statement so that two calls issued on   *)
(* two threads interleave.  The native heap is modelled down to the        *)
(* reference-counted pixel buffers that cv::Mat headers share: a handle is *)
(* a one-field struct whose pointer names a native object (a cv::Mat       *)
(* header, a std::vector<cv::Mat>, a cv::Ptr to an algorithm object).      *)
(* The native routines themselves are uninterpreted: the pixels a routine  *)
(* produces are the symbolic term (routine, inputs, scalars).              *)
(***************************************************************************)
EXTENDS Integers, Sequences, FiniteSets, TLC

VARIABLES
    heap,    \* handle id -> native object a handle points to
    buf,     \* pixel buffer id -> contents (a term), NoTerm when not allocated
    rc,      \* pixel buffer id -> reference count (cv::Mat headers sharing it)
    call     \* thread -> the entry-point invocation it runs or has run

vars == <<heap, buf, rc, call>>

----------------------------------------------------------------------------
(* Bounds and universe                                                     *)

\* Two threads of the caller's dispatcher; each issues one invocation, so that
\* every pair of invocations is explored, overlapping and one after the other.
Threads == {"t1", "t2"}

\* The number of images the caller has built before the first call.
NumImages == 1

\* Handles the caller has built: the images, two image sequences, a fusion
\* algorithm and an alignment algorithm.
SeqSame == NumImages + 1
SeqOdd == NumImages + 2
FuseInit == NumImages + 3
AlignInit == NumImages + 4

\* A call allocates at most two handles and at most two pixel buffers.
MaxHandles == AlignInit + 2 * Cardinality(Threads)
MaxBufs == NumImages + 1 + 2 * Cardinality(Threads)

Handles == 1..MaxHandles
Bufs == 1..MaxBufs

\* A handle whose .ptr is the null pointer.
NULL == 0

----------------------------------------------------------------------------
(* Contents: symbolic terms                                                *)

\* op: the routine that produced the pixels, in: its input contents, p: its
\* scalar arguments, k: which of its outputs, sz: image size, ch: channels.
Term(op, in, p, k, sz, ch) ==
    [op |-> op, in |-> in, p |-> p, k |-> k, sz |-> sz, ch |-> ch]

NoTerm == Term("none", <<>>, <<>>, 0, 0, 0)

\* A default-constructed cv::Mat: no pixel buffer.
EmptyMat == Term("empty", <<>>, <<>>, 0, 0, 0)

\* What a read through a null reference yields when it does not trap.
Indeterminate == Term("indeterminate", <<>>, <<>>, 0, 0, 0)

FreeSlot == [kind |-> "free", ref |-> <<>>, cfg |-> NoTerm, owner |-> "none"]

Range(s) == {s[i] : i \in 1..Len(s)}

SetMin(S) == CHOOSE x \in S : \A y \in S : x <= y

----------------------------------------------------------------------------
(* The entry points: name, handle parameters, scalar parameters            *)

Entries ==
    {"ColorChange", "SeamlessClone", "IlluminationChange", "TextureFlattening",
     "FastNlMeansDenoisingColoredMulti", "FastNlMeansDenoisingColoredMultiWithParams",
     "FastNlMeansDenoising", "FastNlMeansDenoisingWithParams",
     "FastNlMeansDenoisingColored", "FastNlMeansDenoisingColoredWithParams",
     "MergeMertens_Create", "MergeMertens_CreateWithParams", "MergeMertens_Process",
     "AlignMTB_Create", "AlignMTB_CreateWithParams", "AlignMTB_Process",
     "DetailEnhance", "EdgePreservingFilter", "PencilSketch", "Stylization",
     "PhotoInpaint"}

\* The native routine each entry point calls.
NativeOp(e) ==
    CASE e = "ColorChange" -> "colorChange"
      [] e = "SeamlessClone" -> "seamlessClone"
      [] e = "IlluminationChange" -> "illuminationChange"
      [] e = "TextureFlattening" -> "textureFlattening"
      [] e \in {"FastNlMeansDenoisingColoredMulti",
                "FastNlMeansDenoisingColoredMultiWithParams"} ->
             "fastNlMeansDenoisingColoredMulti"
      [] e \in {"FastNlMeansDenoising", "FastNlMeansDenoisingWithParams"} ->
             "fastNlMeansDenoising"
      [] e \in {"FastNlMeansDenoisingColored",
                "FastNlMeansDenoisingColoredWithParams"} ->
             "fastNlMeansDenoisingColored"
      [] e \in {"MergeMertens_Create", "MergeMertens_CreateWithParams"} ->
             "createMergeMertens"
      [] e = "MergeMertens_Process" -> "MergeMertens::process"
      [] e \in {"AlignMTB_Create", "AlignMTB_CreateWithParams"} -> "createAlignMTB"
      [] e = "AlignMTB_Process" -> "AlignMTB::process"
      [] e = "DetailEnhance" -> "detailEnhance"
      [] e = "EdgePreservingFilter" -> "edgePreservingFilter"
      [] e = "PencilSketch" -> "pencilSketch"
      [] e = "Stylization" -> "stylization"
      [] e = "PhotoInpaint" -> "inpaint"

CreateEntries ==
    {"MergeMertens_Create", "MergeMertens_CreateWithParams",
     "AlignMTB_Create", "AlignMTB_CreateWithParams"}

ProcessEntries == {"MergeMertens_Process", "AlignMTB_Process"}

\* The handle kind of the object passed to the callback.
OutKind(e) ==
    CASE e \in {"MergeMertens_Create", "MergeMertens_CreateWithParams"} -> "FuseH"
      [] e \in {"AlignMTB_Create", "AlignMTB_CreateWithParams"} -> "AlignH"
      [] e = "AlignMTB_Process" -> "SeqH"
      [] OTHER -> "ImgH"

\* The handle parameters of each signature, in order.
Sig(e) ==
    CASE e \in {"ColorChange", "IlluminationChange", "TextureFlattening",
                "PhotoInpaint"} -> <<"ImgH", "ImgH">>
      [] e \in {"SeamlessClone", "PencilSketch"} -> <<"ImgH", "ImgH", "ImgH">>
      [] e \in {"FastNlMeansDenoisingColoredMulti",
                "FastNlMeansDenoisingColoredMultiWithParams"} -> <<"SeqH">>
      [] e \in CreateEntries -> <<>>
      [] e = "MergeMertens_Process" -> <<"FuseH", "SeqH">>
      [] e = "AlignMTB_Process" -> <<"AlignH", "SeqH">>
      [] OTHER -> <<"ImgH">>

\* The declared type of the callback parameter: CvCallback_1 in all 21 signatures.
CallbackType(e) == "CB1"

\* The number of arguments in the callback(...) call expression.
CallbackArgs(e) == IF e = "PencilSketch" THEN 2 ELSE 1

\* Default arguments of the native routines, which the compiler supplies when
\* the call leaves trailing parameters out.
LibDefaults(op) ==
    CASE op = "fastNlMeansDenoising" -> <<3, 7, 21>>
      [] op = "fastNlMeansDenoisingColored" -> <<3, 3, 7, 21>>
      [] op = "fastNlMeansDenoisingColoredMulti" -> <<3, 3, 7, 21>>
      [] op = "createMergeMertens" -> <<1, 1, 0>>
      [] op = "createAlignMTB" -> <<6, 4, 1>>
      [] OTHER -> <<>>

\* Faulty forwarding: the WithParams forms pass their trailing scalars in
\* reverse order.
NativeParamsSwapped(e, p) ==
    CASE e \in {"FastNlMeansDenoising", "FastNlMeansDenoisingColored",
                "MergeMertens_Create", "AlignMTB_Create"} -> LibDefaults(NativeOp(e))
      [] e = "FastNlMeansDenoisingColoredMulti" ->
             <<p[1], p[2]>> \o LibDefaults(NativeOp(e))
      [] e = "FastNlMeansDenoisingColoredMultiWithParams" ->
             <<p[1], p[2], p[6], p[5], p[4], p[3]>>
      [] e \in {"FastNlMeansDenoisingWithParams",
                "FastNlMeansDenoisingColoredWithParams",
                "MergeMertens_CreateWithParams", "AlignMTB_CreateWithParams"} ->
             [i \in 1..Len(p) |-> p[Len(p) + 1 - i]]
      [] OTHER -> p

\* The scalar arguments the entry point hands to the native routine, in the
\* order of the native parameter list; p are the entry point's own scalars.
NativeParams(e, p) ==
    CASE e \in {"FastNlMeansDenoising", "FastNlMeansDenoisingColored",
                "MergeMertens_Create", "AlignMTB_Create"} -> LibDefaults(NativeOp(e))
      [] e = "FastNlMeansDenoisingColoredMulti" ->
             <<p[1], p[2]>> \o LibDefaults(NativeOp(e))
      [] OTHER -> p

\* Faulty bodies: the callback statement written twice; the callback statement
\* written before the native call; the native call left out.
BodyCallbackTwice(e) ==
    IF e \in CreateEntries THEN <<"callback", "callback">>
    ELSE <<"native", "callback", "callback">>

BodyCallbackFirst(e) ==
    IF e \in CreateEntries THEN <<"callback">> ELSE <<"callback", "native">>

BodyCallbackOnly(e) == <<"callback">>

\* The statements between BEGIN_WRAP and END_WRAP, in program order: the call
\* of the native routine, then callback(new ...).  In the Create entry points
\* the native factory call is an argument of the only statement.
Body(e) == IF e \in CreateEntries THEN <<"callback">> ELSE <<"native", "callback">>

----------------------------------------------------------------------------
(* The native heap: handles, cv::Mat headers, reference-counted buffers    *)

Store == [heap |-> heap, buf |-> buf, rc |-> rc]

FreeBufs(S) == {b \in Bufs : S.buf[b] = NoTerm}

FreshBuf(S) == IF FreeBufs(S) = {} THEN MaxBufs ELSE SetMin(FreeBufs(S))

FreeHandles(S) == {h \in Handles : S.heap[h].kind = "free"}

\* Faulty allocation: every output is handed out in one and the same handle.
StaticHandle(S) == MaxHandles

FreshHandle(S) == IF FreeHandles(S) = {} THEN MaxHandles ELSE SetMin(FreeHandles(S))

\* cv::Mat copy construction and destruction: the header is copied, the pixel
\* buffer is shared and counted; the last header to go frees the buffer.
IncRef(S, b) == [S EXCEPT !.rc[b] = @ + 1]

DecRef(S, b) ==
    IF S.rc[b] <= 1
    THEN [S EXCEPT !.rc[b] = 0, !.buf[b] = NoTerm]
    ELSE [S EXCEPT !.rc[b] = @ - 1]

RECURSIVE IncRefs(_, _)
IncRefs(S, refs) ==
    IF refs = <<>> THEN S ELSE IncRefs(IncRef(S, Head(refs)), Tail(refs))

RECURSIVE DecRefs(_, _)
DecRefs(S, refs) ==
    IF refs = <<>> THEN S ELSE DecRefs(DecRef(S, Head(refs)), Tail(refs))

\* The contents reachable through a handle, as the native routine reads them.
Vals(S, h) ==
    IF h = NULL THEN <<Indeterminate>>
    ELSE LET o == S.heap[h] IN
         CASE o.kind \in {"FuseH", "AlignH"} -> <<o.cfg>>
           [] o.kind = "ImgH" ->
                IF o.ref = <<>> THEN <<EmptyMat>> ELSE <<S.buf[o.ref[1]]>>
           [] OTHER -> [i \in 1..Len(o.ref) |-> S.buf[o.ref[i]]]

RECURSIVE ValsOf(_, _)
ValsOf(S, hs) ==
    IF hs = <<>> THEN <<>> ELSE Vals(S, Head(hs)) \o ValsOf(S, Tail(hs))

\* The Mats the entry point passes to the native routine as inputs, in order.
\* PencilSketch passes dst1 and dst2 as output arrays: only src is read.
NativeIn(S, e, args) ==
    IF e = "PencilSketch" THEN Vals(S, args[1]) ELSE ValsOf(S, args)

----------------------------------------------------------------------------
(* The native library, uninterpreted                                       *)

ImagesOf(e, in) == IF e \in ProcessEntries /\ in # <<>> THEN Tail(in) ELSE in

OutSize(e, in) ==
    LET imgs == ImagesOf(e, in) IN
    CASE e \in CreateEntries -> 0
      [] imgs = <<>> -> 0
      [] e = "SeamlessClone" /\ Len(imgs) >= 2 -> imgs[2].sz
      [] OTHER -> imgs[1].sz

OutCh(e, in, k) ==
    LET imgs == ImagesOf(e, in) IN
    CASE e \in CreateEntries -> 0
      [] e = "PencilSketch" -> IF k = 1 THEN 1 ELSE 3
      [] imgs = <<>> -> 0
      [] OTHER -> imgs[1].ch

\* The k-th output of the native routine on these inputs and scalars.
NativeTerm(e, in, p, k) ==
    Term(NativeOp(e), in, NativeParams(e, p), k, OutSize(e, in), OutCh(e, in, k))

\* The native routine rejects its input: an empty image, a mask or a sequence
\* element whose size differs from the source's, an empty sequence.
NativeRaises(e, in) ==
    LET imgs == ImagesOf(e, in) IN
    /\ e \notin CreateEntries
    /\ \/ imgs = <<>>
       \/ \E i \in 1..Len(imgs) : imgs[i].sz = 0
       \/ /\ e \in {"ColorChange", "IlluminationChange", "TextureFlattening",
                    "PhotoInpaint"}
          /\ imgs[1].sz # imgs[2].sz
       \/ /\ e = "SeamlessClone"
          /\ imgs[1].sz # imgs[3].sz
       \/ /\ e \in ProcessEntries \cup {"FastNlMeansDenoisingColoredMulti",
                                        "FastNlMeansDenoisingColoredMultiWithParams"}
          /\ \E i, j \in 1..Len(imgs) : imgs[i].sz # imgs[j].sz

\* cv::Mat::create followed by the write of the result, on the header of
\* handle h: a buffer of the right size and type is reused in place (and every
\* header sharing it sees the new pixels), otherwise the header drops its
\* buffer and gets a fresh one.
WriteOut(S, h, term) ==
    LET ref == S.heap[h].ref
        inplace == /\ ref # <<>>
                   /\ S.buf[ref[1]].sz = term.sz
                   /\ S.buf[ref[1]].ch = term.ch
    IN  IF inplace
        THEN [S EXCEPT !.buf[ref[1]] = term]
        ELSE LET S1 == DecRefs(S, ref)
                 b == FreshBuf(S1)
             IN  [S1 EXCEPT !.buf[b] = term, !.rc[b] = 1, !.heap[h].ref = <<b>>]

\* The native routine fills a default-constructed local with fresh buffers,
\* one per term; the result is the store and the local's header(s).
RECURSIVE FillLocal(_, _, _)
FillLocal(S, terms, acc) ==
    IF terms = <<>> THEN [st |-> S, local |-> acc]
    ELSE LET b == FreshBuf(S) IN
         FillLocal([S EXCEPT !.buf[b] = Head(terms), !.rc[b] = 1],
                   Tail(terms), Append(acc, b))

----------------------------------------------------------------------------
(* A call: the activation record of one entry-point invocation             *)

\* pc: 0 not running, i the i-th statement of Body is next, Len(Body)+1 at
\* END_WRAP's return, -1 an exception is in flight towards END_WRAP's catch.
IdleCall ==
    [pc |-> 0, entry |-> "none", args |-> <<>>, params |-> <<>>,
     snap |-> <<>>, plain |-> TRUE,
     local |-> <<>>,
     outs |-> <<>>, outVals |-> <<>>, ncb |-> 0,
     status |-> "none", exc |-> "none", trace |-> <<>>,
     deref |-> FALSE, crashed |-> FALSE,
     overlap |-> FALSE, shared |-> FALSE]

Running(c) == c.pc # 0 /\ ~c.crashed

Returned(c) == c.pc = 0 /\ c.status # "none"

HasNull(c) == NULL \in Range(c.args)

NoCrash == \A t \in Threads : ~call[t].crashed

HandlesOf(c) == Range(c.args) \ {NULL}

BufsOf(S, hs) == UNION {Range(S.heap[h].ref) : h \in hs}

\* The handles a call writes through: PencilSketch's dst1 and dst2.
WHandles(c) ==
    IF c.entry = "PencilSketch" THEN {c.args[2], c.args[3]} \ {NULL} ELSE {}

\* One of the two calls writes a header or a pixel buffer the other one uses.
Conflict(S, c, d) ==
    \/ WHandles(c) \cap HandlesOf(d) # {}
    \/ WHandles(d) \cap HandlesOf(c) # {}
    \/ BufsOf(S, WHandles(c)) \cap BufsOf(S, HandlesOf(d)) # {}
    \/ BufsOf(S, WHandles(d)) \cap BufsOf(S, HandlesOf(c)) # {}

\* History: whether a running call has overlapped another one, and whether it
\* has overlapped one it is in conflict with.
Mark(S, c) ==
    [t \in Threads |->
        IF ~Running(c[t]) THEN c[t]
        ELSE [c[t] EXCEPT
                !.overlap = @ \/ \E u \in Threads \ {t} : Running(c[u]),
                !.shared = @ \/ \E u \in Threads \ {t} :
                                   Running(c[u]) /\ Conflict(S, c[t], c[u])]]

Commit(S, c) ==
    /\ heap' = S.heap
    /\ buf' = S.buf
    /\ rc' = S.rc
    /\ call' = Mark(S, c)

\* Faulty storage: _dst declared static, one object shared by all activations.
DstSlotStatic(t) == "t1"

\* The storage of the local cv::Mat _dst (std::vector<cv::Mat> vec): automatic,
\* one per activation.
DstSlot(t) == t

\* Faulty scope exit: the local keeps its reference to the pixel buffer.
KeepLocals(S, c) == S

\* Leaving the scope of the locals, by return or by unwinding: their
\* destructors drop the references they hold.
DestroyLocals(S, c) == DecRefs(S, c.local)

----------------------------------------------------------------------------
(* Invocation                                                              *)

Owned(kind) == {h \in Handles : heap[h].kind = kind /\ heap[h].owner = "caller"}

\* The first handle parameter is any handle of its kind the caller owns, or a
\* null handle; the further ones are handles the caller owns.
OrNull(hs) == hs \cup {NULL}

\* Scalar arguments: n pairwise different values.
Scalars(n) == [i \in 1..n |-> i + 1]

\* Two Mat parameters that are distinct handles sharing no pixel buffer.
Apart(S, g, h) ==
    /\ g # h
    /\ g # NULL /\ h # NULL
    /\ Range(S.heap[g].ref) \cap Range(S.heap[h].ref) = {}

CanInvoke(t) ==
    /\ NoCrash
    /\ call[t].pc = 0
    /\ call[t].status = "none"

Invoke(t, e, args, p) ==
    /\ Commit(Store,
              [call EXCEPT ![t] =
                  [IdleCall EXCEPT
                      !.pc = 1, !.entry = e, !.args = args, !.params = p,
                      !.snap = NativeIn(Store, e, args),
                      !.plain = IF e = "PencilSketch"
                                THEN /\ Apart(Store, args[2], args[3])
                                     /\ args[1] # NULL
                                ELSE TRUE]])

ColorChange_Async(t) ==
    /\ CanInvoke(t)
    /\ \E src \in OrNull(Owned("ImgH")), mask \in Owned("ImgH") :
        Invoke(t, "ColorChange", <<src, mask>>, Scalars(3))

SeamlessClone_Async(t) ==
    /\ CanInvoke(t)
    /\ \E src \in OrNull(Owned("ImgH")), dst, mask \in Owned("ImgH") :
        Invoke(t, "SeamlessClone", <<src, dst, mask>>, Scalars(3))

IlluminationChange_Async(t) ==
    /\ CanInvoke(t)
    /\ \E src \in OrNull(Owned("ImgH")), mask \in Owned("ImgH") :
        Invoke(t, "IlluminationChange", <<src, mask>>, Scalars(2))

TextureFlattening_Async(t) ==
    /\ CanInvoke(t)
    /\ \E src \in OrNull(Owned("ImgH")), mask \in Owned("ImgH") :
        Invoke(t, "TextureFlattening", <<src, mask>>, Scalars(3))

FastNlMeansDenoisingColoredMulti_Async(t) ==
    /\ CanInvoke(t)
    /\ \E src \in OrNull(Owned("SeqH")) :
        Invoke(t, "FastNlMeansDenoisingColoredMulti", <<src>>, Scalars(2))

FastNlMeansDenoisingColoredMultiWithParams_Async(t) ==
    /\ CanInvoke(t)
    /\ \E src \in OrNull(Owned("SeqH")),
          q \in {LibDefaults("fastNlMeansDenoisingColoredMulti"), <<4, 5, 6, 7>>} :
        Invoke(t, "FastNlMeansDenoisingColoredMultiWithParams", <<src>>,
               Scalars(2) \o q)

FastNlMeansDenoising_Async(t) ==
    /\ CanInvoke(t)
    /\ \E src \in OrNull(Owned("ImgH")) :
        Invoke(t, "FastNlMeansDenoising", <<src>>, <<>>)

FastNlMeansDenoisingWithParams_Async(t) ==
    /\ CanInvoke(t)
    /\ \E src \in OrNull(Owned("ImgH")),
          p \in {LibDefaults("fastNlMeansDenoising"), <<7, 21, 3>>} :
        Invoke(t, "FastNlMeansDenoisingWithParams", <<src>>, p)

FastNlMeansDenoisingColored_Async(t) ==
    /\ CanInvoke(t)
    /\ \E src \in OrNull(Owned("ImgH")) :
        Invoke(t, "FastNlMeansDenoisingColored", <<src>>, <<>>)

FastNlMeansDenoisingColoredWithParams_Async(t) ==
    /\ CanInvoke(t)
    /\ \E src \in OrNull(Owned("ImgH")),
          p \in {LibDefaults("fastNlMeansDenoisingColored"), <<7, 21, 3, 3>>} :
        Invoke(t, "FastNlMeansDenoisingColoredWithParams", <<src>>, p)

MergeMertens_Create_Async(t) ==
    /\ CanInvoke(t)
    /\ Invoke(t, "MergeMertens_Create", <<>>, <<>>)

MergeMertens_CreateWithParams_Async(t) ==
    /\ CanInvoke(t)
    /\ \E p \in {LibDefaults("createMergeMertens"), <<0, 1, 1>>} :
        Invoke(t, "MergeMertens_CreateWithParams", <<>>, p)

MergeMertens_Process_Async(t) ==
    /\ CanInvoke(t)
    /\ \E b \in OrNull(Owned("FuseH")), src \in Owned("SeqH") :
        Invoke(t, "MergeMertens_Process", <<b, src>>, <<>>)

AlignMTB_Create_Async(t) ==
    /\ CanInvoke(t)
    /\ Invoke(t, "AlignMTB_Create", <<>>, <<>>)

AlignMTB_CreateWithParams_Async(t) ==
    /\ CanInvoke(t)
    /\ \E p \in {LibDefaults("createAlignMTB"), <<4, 6, 0>>} :
        Invoke(t, "AlignMTB_CreateWithParams", <<>>, p)

AlignMTB_Process_Async(t) ==
    /\ CanInvoke(t)
    /\ \E b \in OrNull(Owned("AlignH")), src \in Owned("SeqH") :
        Invoke(t, "AlignMTB_Process", <<b, src>>, <<>>)

DetailEnhance_Async(t) ==
    /\ CanInvoke(t)
    /\ \E src \in OrNull(Owned("ImgH")) :
        Invoke(t, "DetailEnhance", <<src>>, Scalars(2))

EdgePreservingFilter_Async(t) ==
    /\ CanInvoke(t)
    /\ \E src \in OrNull(Owned("ImgH")) :
        Invoke(t, "EdgePreservingFilter", <<src>>, Scalars(3))

PencilSketch_Async(t) ==
    /\ CanInvoke(t)
    /\ \E src \in OrNull(Owned("ImgH")), dst1, dst2 \in Owned("ImgH") :
        Invoke(t, "PencilSketch", <<src, dst1, dst2>>, Scalars(3))

Stylization_Async(t) ==
    /\ CanInvoke(t)
    /\ \E src \in OrNull(Owned("ImgH")) :
        Invoke(t, "Stylization", <<src>>, Scalars(2))

PhotoInpaint_Async(t) ==
    /\ CanInvoke(t)
    /\ \E src \in OrNull(Owned("ImgH")), mask \in Owned("ImgH") :
        Invoke(t, "PhotoInpaint", <<src, mask>>, Scalars(2))

----------------------------------------------------------------------------
(* The statements of a body                                                *)

AtStmt(c, stmt) ==
    /\ ~c.crashed
    /\ c.pc \in 1..Len(Body(c.entry))
    /\ Body(c.entry)[c.pc] = stmt

\* What the native routine leaves behind when it returns normally: the filled
\* local(s), or, for PencilSketch, the rewritten headers of dst1 and dst2.
NativeResult(S, e, args, p, in, old) ==
    CASE e = "PencilSketch" ->
           [st |-> WriteOut(WriteOut(S, args[2], NativeTerm(e, in, p, 1)),
                            args[3], NativeTerm(e, in, p, 2)),
            local |-> old]
      [] e = "AlignMTB_Process" ->
           LET r == FillLocal(DecRefs(S, old),
                              [i \in 1..Len(ImagesOf(e, in)) |->
                                  NativeTerm(e, in, p, i)], <<>>)
           IN  [st |-> r.st, local |-> r.local]
      [] OTHER ->
           LET r == FillLocal(DecRefs(S, old), <<NativeTerm(e, in, p, 0)>>, <<>>)
           IN  [st |-> r.st, local |-> r.local]

\* The same when an argument was a null reference and the read did not trap:
\* whatever is written is indeterminate, writes through null go nowhere.
GarbageResult(S, e, args, old) ==
    IF e = "PencilSketch"
    THEN LET S1 == IF args[2] = NULL THEN S ELSE WriteOut(S, args[2], Indeterminate)
             S2 == IF args[3] = NULL THEN S1 ELSE WriteOut(S1, args[3], Indeterminate)
         IN  [st |-> S2, local |-> old]
    ELSE LET r == FillLocal(DecRefs(S, old), <<Indeterminate>>, <<>>)
         IN  [st |-> r.st, local |-> r.local]

\* cv::<routine>(*src.ptr, ..., _dst, ...): the handles are dereferenced with no
\* null check, then the routine runs.  Dereferencing a null .ptr is undefined:
\* the process traps, or the routine raises, or it runs on garbage.
NativeStep(t) ==
    LET c == call[t]
        e == c.entry
        in == NativeIn(Store, e, c.args)
        old == call[DstSlot(t)].local
        done(r, ub) ==
            Commit(r.st,
                   [call EXCEPT ![t].pc = @ + 1,
                                ![t].trace = Append(@, "native"),
                                ![t].deref = ub,
                                ![DstSlot(t)].local = r.local])
        raise(ub) ==
            Commit(Store,
                   [call EXCEPT ![t].pc = -1,
                                ![t].exc = "native",
                                ![t].trace = Append(@, "raise"),
                                ![t].deref = ub])
    IN  /\ NoCrash
        /\ AtStmt(c, "native")
        /\ IF ~HasNull(c)
           THEN IF NativeRaises(e, in)
                THEN raise(FALSE)
                ELSE done(NativeResult(Store, e, c.args, c.params, in, old), FALSE)
           ELSE \/ Commit(Store, [call EXCEPT ![t].crashed = TRUE, ![t].deref = TRUE])
                \/ raise(TRUE)
                \/ done(GarbageResult(Store, e, c.args, old), TRUE)

\* new T{...}: a handle struct on the heap, owned by the adapter until it is
\* handed over.
NewHandle(S, kind, ref, cfg) ==
    LET h == FreshHandle(S) IN
    [st |-> [S EXCEPT !.heap[h] =
                [kind |-> kind, ref |-> ref, cfg |-> cfg, owner |-> "adapter"]],
     h |-> h]

\* new cv::Mat(m), new std::vector<cv::Mat>(v): copy construction of the
\* header(s) ref; the pixel buffers are shared with the original.
CopyMat(S, kind, ref) ==
    LET r == NewHandle(S, kind, ref, NoTerm) IN
    [st |-> IncRefs(r.st, ref), h |-> r.h]

HeaderOf(S, h) == IF h = NULL THEN <<>> ELSE S.heap[h].ref

\* The argument expressions of callback(...): the output handle(s), each a
\* new handle around a copy-constructed cv::Mat (vector) or around the
\* algorithm object the native factory returns.
AllocResult(S, e, args, p, local) ==
    CASE e = "PencilSketch" ->
           LET r1 == CopyMat(S, "ImgH", HeaderOf(S, args[2]))
               r2 == CopyMat(r1.st, "ImgH", HeaderOf(r1.st, args[3]))
           IN  [st |-> r2.st, outs |-> <<r1.h, r2.h>>]
      [] e \in CreateEntries ->
           LET r == NewHandle(S, OutKind(e), <<>>, NativeTerm(e, <<>>, p, 0))
           IN  [st |-> r.st, outs |-> <<r.h>>]
      [] OTHER ->
           LET r == CopyMat(S, OutKind(e), local)
           IN  [st |-> r.st, outs |-> <<r.h>>]

Deliver(S, outs) ==
    [S EXCEPT !.heap = [h \in Handles |->
                           IF h \in Range(outs) THEN [S.heap[h] EXCEPT !.owner = "caller"]
                           ELSE S.heap[h]]]

\* callback(new ...): the arguments are evaluated, which allocates the output
\* handle(s); then the caller's function runs on the calling thread and takes
\* them over; it returns, or it raises.
CallbackStep(t) ==
    LET c == call[t]
        e == c.entry
        r == AllocResult(Store, e, c.args, c.params, call[DstSlot(t)].local)
        S == Deliver(r.st, r.outs)
        events == IF e \in CreateEntries THEN <<"native", "alloc", "callback">>
                  ELSE <<"alloc", "callback">>
    IN  /\ NoCrash
        /\ AtStmt(c, "callback")
        /\ \E raises \in BOOLEAN :
              Commit(S,
                     [call EXCEPT ![t].pc = IF raises THEN -1 ELSE @ + 1,
                                  ![t].exc = IF raises THEN "callback" ELSE @,
                                  ![t].trace = @ \o events,
                                  ![t].ncb = @ + 1,
                                  ![t].outs = r.outs,
                                  ![t].outVals = ValsOf(S, r.outs)])

\* END_WRAP, normal exit: the body ran to its end; the locals go out of scope
\* and the OK status is returned.
EndWrapReturn(t) ==
    LET c == call[t] IN
    /\ NoCrash
    /\ c.pc = Len(Body(c.entry)) + 1
    /\ Commit(DestroyLocals(Store, call[DstSlot(t)]),
              [call EXCEPT ![t].pc = 0,
                           ![t].status = "OK",
                           ![t].trace = Append(@, "return"),
                           ![DstSlot(t)].local = <<>>])

\* END_WRAP, catch clauses: whatever was raised inside the body is caught, the
\* stack is unwound and a failure status is returned.
EndWrapCatch(t) ==
    LET c == call[t] IN
    /\ NoCrash
    /\ c.pc = -1
    /\ Commit(DestroyLocals(Store, call[DstSlot(t)]),
              [call EXCEPT ![t].pc = 0,
                           ![t].status = "Error",
                           ![t].trace = Append(@, "return"),
                           ![DstSlot(t)].local = <<>>])

----------------------------------------------------------------------------
(* The system                                                              *)

Atom(name, sz) == Term(name, <<>>, <<>>, 0, sz, 3)

CallerObj(kind, ref, cfg) == [kind |-> kind, ref |-> ref, cfg |-> cfg, owner |-> "caller"]

\* What the caller has built before the first call.  Image i has its own pixel
\* buffer i, of size i.  The first sequence holds two exposures of equal size,
\* the second two exposures of different sizes; sequences are built from
\* cv::Mat headers and share pixels with image 1.  The algorithm handles are
\* what the Create entry points deliver.
Init ==
    /\ heap = [h \in Handles |->
                 CASE h \in 1..NumImages -> CallerObj("ImgH", <<h>>, NoTerm)
                   [] h = SeqSame -> CallerObj("SeqH", <<1, 1>>, NoTerm)
                   [] h = SeqOdd -> CallerObj("SeqH", <<1, NumImages + 1>>, NoTerm)
                   [] h = FuseInit ->
                        CallerObj("FuseH", <<>>, NativeTerm("MergeMertens_Create", <<>>, <<>>, 0))
                   [] h = AlignInit ->
                        CallerObj("AlignH", <<>>, NativeTerm("AlignMTB_Create", <<>>, <<>>, 0))
                   [] OTHER -> FreeSlot]
    /\ buf = [b \in Bufs |->
                 CASE b \in 1..NumImages -> Atom("image", b)
                   [] b = NumImages + 1 -> Atom("exposure", NumImages + 1)
                   [] OTHER -> NoTerm]
    /\ rc = [b \in Bufs |->
                 CASE b = 1 -> 4
                   [] b \in 2..(NumImages + 1) -> 1
                   [] OTHER -> 0]
    /\ call = [t \in Threads |-> IdleCall]

Next ==
    \E t \in Threads :
        \/ ColorChange_Async(t)
        \/ SeamlessClone_Async(t)
        \/ IlluminationChange_Async(t)
        \/ TextureFlattening_Async(t)
        \/ FastNlMeansDenoisingColoredMulti_Async(t)
        \/ FastNlMeansDenoisingColoredMultiWithParams_Async(t)
        \/ FastNlMeansDenoising_Async(t)
        \/ FastNlMeansDenoisingWithParams_Async(t)
        \/ FastNlMeansDenoisingColored_Async(t)
        \/ FastNlMeansDenoisingColoredWithParams_Async(t)
        \/ MergeMertens_Create_Async(t)
        \/ MergeMertens_CreateWithParams_Async(t)
        \/ MergeMertens_Process_Async(t)
        \/ AlignMTB_Create_Async(t)
        \/ AlignMTB_CreateWithParams_Async(t)
        \/ AlignMTB_Process_Async(t)
        \/ DetailEnhance_Async(t)
        \/ EdgePreservingFilter_Async(t)
        \/ PencilSketch_Async(t)
        \/ Stylization_Async(t)
        \/ PhotoInpaint_Async(t)
        \/ NativeStep(t)
        \/ CallbackStep(t)
        \/ EndWrapReturn(t)
        \/ EndWrapCatch(t)

Spec == Init /\ [][Next]_vars

----------------------------------------------------------------------------
(* Auxiliary definitions for the properties                                *)

CountIn(s, x) == Cardinality({i \in 1..Len(s) : s[i] = x})

RECURSIVE HandleRefs(_, _)
HandleRefs(n, b) ==
    IF n = 0 THEN 0 ELSE CountIn(heap[n].ref, b) + HandleRefs(n - 1, b)

RECURSIVE LocalRefs(_, _)
LocalRefs(ts, b) ==
    IF ts = {} THEN 0
    ELSE LET t == CHOOSE x \in ts : TRUE
         IN  CountIn(call[t].local, b) + LocalRefs(ts \ {t}, b)

RECURSIVE OutCount(_)
OutCount(ts) ==
    IF ts = {} THEN 0
    ELSE LET t == CHOOSE x \in ts : TRUE
         IN  Len(call[t].outs) + OutCount(ts \ {t})

LiveHandles == {h \in Handles : heap[h].kind # "free"}

\* The handle kind the interface table lists for each operation's output.
DocKind(e) ==
    CASE e \in {"MergeMertens_Create", "MergeMertens_CreateWithParams"} -> "FuseH"
      [] e \in {"AlignMTB_Create", "AlignMTB_CreateWithParams"} -> "AlignH"
      [] e = "AlignMTB_Process" -> "SeqH"
      [] OTHER -> "ImgH"

\* The WithParams form of a parameter-free entry point.
WithParamsOf(e) ==
    CASE e = "FastNlMeansDenoising" -> "FastNlMeansDenoisingWithParams"
      [] e = "FastNlMeansDenoisingColored" -> "FastNlMeansDenoisingColoredWithParams"
      [] e = "FastNlMeansDenoisingColoredMulti" ->
             "FastNlMeansDenoisingColoredMultiWithParams"
      [] e = "MergeMertens_Create" -> "MergeMertens_CreateWithParams"
      [] e = "AlignMTB_Create" -> "AlignMTB_CreateWithParams"
      [] OTHER -> "none"

\* The documented defaults of the trailing native parameters: h,
\* templateWindowSize, searchWindowSize; h, hColor, templateWindowSize,
\* searchWindowSize; contrast, saturation, exposure weights; max_bits,
\* exclude_range, cut.
DocDefaults(e) ==
    CASE e = "FastNlMeansDenoising" -> <<3, 7, 21>>
      [] e = "FastNlMeansDenoisingColored" -> <<3, 3, 7, 21>>
      [] e = "FastNlMeansDenoisingColoredMulti" -> <<3, 3, 7, 21>>
      [] e = "MergeMertens_Create" -> <<1, 1, 0>>
      [] e = "AlignMTB_Create" -> <<6, 4, 1>>
      [] OTHER -> <<>>

\* What a call delivers when it runs alone on the inputs it was invoked with.
ExpRaises(c) == NativeRaises(c.entry, c.snap)

ExpStatus(c) == IF ExpRaises(c) \/ c.exc = "callback" THEN "Error" ELSE "OK"

ExpNcb(c) == IF ExpRaises(c) THEN 0 ELSE 1

ExpOut(c) ==
    CASE c.entry = "PencilSketch" ->
           <<NativeTerm(c.entry, c.snap, c.params, 1),
             NativeTerm(c.entry, c.snap, c.params, 2)>>
      [] c.entry = "AlignMTB_Process" ->
           [i \in 1..Len(ImagesOf(c.entry, c.snap)) |->
               NativeTerm(c.entry, c.snap, c.params, i)]
      [] c.entry \in CreateEntries ->
           <<NativeTerm(c.entry, <<>>, c.params, 0)>>
      [] OTHER -> <<NativeTerm(c.entry, c.snap, c.params, 0)>>

----------------------------------------------------------------------------
(* Properties                                                              *)

\* C1 as stated: a call on valid handles returns OK if and only if it invoked
\* the callback exactly once, and no call invokes the callback more than once;
\* so a callback invocation is never followed by a failure status.
C1_OkIffCallbackOnce ==
    \A t \in Threads :
        LET c == call[t] IN
        ~HasNull(c) =>
            /\ c.ncb <= 1
            /\ Returned(c) => (c.status = "OK" <=> c.ncb = 1)

\* C1 amended: no call invokes the callback more than once; a call returns OK
\* if and only if it invoked the callback once and the callback returned
\* normally; a call whose callback raised returns a failure status although
\* the callback was invoked.
C1_OkIffCallbackReturned ==
    \A t \in Threads :
        LET c == call[t] IN
        /\ c.ncb <= 1
        /\ Returned(c) => (c.status = "OK" <=> (c.ncb = 1 /\ c.exc # "callback"))
        /\ Returned(c) /\ c.exc = "callback" => c.status = "Error" /\ c.ncb = 1

C1_Witness ==
    /\ Returned(call["t1"]) /\ call["t1"].status = "OK" /\ call["t1"].ncb = 1
    /\ Returned(call["t2"]) /\ call["t2"].exc = "callback"

\* C2 as stated: a call on valid handles that returns a failure status has
\* invoked the callback zero times and has allocated no output handle,
\* whatever made it fail.
C2_FailureAllocatesNothing ==
    \A t \in Threads :
        LET c == call[t] IN
        ~HasNull(c) /\ Returned(c) /\ c.status = "Error" =>
            c.ncb = 0 /\ c.outs = <<>>

\* C2 amended: when the native routine raises, the call returns a failure
\* status, the callback is not invoked and no output handle is allocated: the
\* handles on the heap are the caller's own and the outputs of the calls.
C2_NativeRaiseAllocatesNothing ==
    /\ Cardinality(LiveHandles) = AlignInit + OutCount(Threads)
    /\ \A t \in Threads :
          LET c == call[t] IN
          c.exc = "native" =>
              /\ c.ncb = 0
              /\ c.outs = <<>>
              /\ "callback" \notin Range(c.trace)
              /\ Returned(c) => c.status = "Error"

C2_Witness ==
    \E t \in Threads :
        /\ Returned(call[t])
        /\ call[t].exc = "native"
        /\ ~HasNull(call[t])
        /\ Cardinality(LiveHandles) = AlignInit

\* C3 as stated: no output handle delivered through the callback by a call on
\* valid handles shares a native object or a pixel buffer with an input handle
\* of the same call.
C3_OutputsShareNothingWithInputs ==
    \A t \in Threads :
        LET c == call[t] IN
        ~HasNull(c) /\ c.ncb > 0 =>
            \A o \in Range(c.outs), h \in HandlesOf(c) :
                /\ o # h
                /\ BufsOf(Store, {o}) \cap BufsOf(Store, {h}) = {}

\* C4: when a call has returned, with either status, every handle passed in is
\* still a live object of its kind owned by the caller, with its pixel buffers
\* allocated; the locals of the call are gone and every handle it allocated
\* belongs to the caller; and at all times each buffer's reference count is the
\* number of headers, in handles and in locals of running calls, that share it.
C4_InputsBorrowedNothingRetained ==
    /\ \A b \in Bufs : rc[b] = HandleRefs(MaxHandles, b) + LocalRefs(Threads, b)
    /\ \A h \in Handles : heap[h].owner # "adapter"
    /\ \A t \in Threads :
          LET c == call[t] IN
          Returned(c) =>
              /\ c.local = <<>>
              /\ \A i \in 1..Len(c.args) :
                    c.args[i] # NULL =>
                        /\ heap[c.args[i]].kind = Sig(c.entry)[i]
                        /\ heap[c.args[i]].owner = "caller"
                        /\ \A b \in Range(heap[c.args[i]].ref) :
                              rc[b] >= 1 /\ buf[b] # NoTerm
              /\ \A o \in Range(c.outs) : heap[o].owner = "caller"

C4_Witness ==
    /\ Returned(call["t1"]) /\ call["t1"].status = "OK"
    /\ Returned(call["t2"]) /\ call["t2"].status = "Error"
    /\ call["t1"].args # <<>> /\ ~HasNull(call["t1"])
    /\ call["t2"].args # <<>> /\ ~HasNull(call["t2"])

\* C5: a call that returns OK has gone through exactly these events in this
\* order: the native routine completed, the output handles were allocated, the
\* callback was invoked, the entry point returned; in every call a callback
\* invocation comes after the native routine's completion and the allocation,
\* and nothing follows the return.
C5_NativeAllocCallbackReturn ==
    \A t \in Threads :
        LET c == call[t] IN
        /\ Returned(c) /\ c.status = "OK" =>
              c.trace = <<"native", "alloc", "callback", "return">>
        /\ \A i \in 1..Len(c.trace) :
              /\ c.trace[i] = "callback" =>
                    i = 3 /\ c.trace[1] = "native" /\ c.trace[2] = "alloc"
              /\ c.trace[i] = "return" => i = Len(c.trace) /\ c.pc = 0

C5_Witness ==
    \E t \in Threads :
        /\ Returned(call[t])
        /\ call[t].status = "OK"
        /\ call[t].entry = "PhotoInpaint"

\* C6 as stated: a call that was passed a null handle returns a failure status
\* without dereferencing the null reference, without calling the native
\* routine and without invoking the callback.
C6_NullRejectedBeforeNative ==
    \A t \in Threads :
        LET c == call[t] IN
        HasNull(c) =>
            /\ ~c.deref
            /\ "native" \notin Range(c.trace)
            /\ c.ncb = 0
            /\ Returned(c) => c.status = "Error"

\* C7 as stated: PencilSketch takes a two-argument callback (CB2) and invokes
\* it once with two image handles, dst1's then dst2's; every other entry point
\* takes a one-argument callback (CB1) and passes one handle of the listed kind.
C7_CallbackShapes ==
    \A t \in Threads :
        LET c == call[t] IN
        ~HasNull(c) /\ c.ncb > 0 =>
            IF c.entry = "PencilSketch"
            THEN /\ CallbackType(c.entry) = "CB2"
                 /\ CallbackArgs(c.entry) = 2
                 /\ Len(c.outs) = 2
                 /\ \A o \in Range(c.outs) : heap[o].kind = "ImgH"
            ELSE /\ CallbackType(c.entry) = "CB1"
                 /\ CallbackArgs(c.entry) = 1
                 /\ Len(c.outs) = 1
                 /\ heap[c.outs[1]].kind = DocKind(c.entry)

C9_DefaultsEquivalent ==
    \A t, u \in Threads :
        LET c == call[t]
            d == call[u]
        IN  /\ t # u
            /\ Returned(c) /\ Returned(d)
            /\ WithParamsOf(c.entry) = d.entry
            /\ d.params = c.params \o DocDefaults(c.entry)
            /\ ~HasNull(c) /\ ~HasNull(d)
            /\ c.snap = d.snap
            => /\ c.exc # "callback" /\ d.exc # "callback" => c.status = d.status
               /\ c.ncb = d.ncb
               /\ c.ncb = 1 => c.outVals = d.outVals

C9_Witness ==
    /\ Returned(call["t1"]) /\ Returned(call["t2"])
    /\ call["t1"].entry = "FastNlMeansDenoising"
    /\ call["t2"].entry = "FastNlMeansDenoisingWithParams"
    /\ call["t2"].params = <<3, 7, 21>>
    /\ call["t1"].args = call["t2"].args
    /\ call["t1"].status = "OK" /\ call["t2"].status = "OK"

\* C10: a call that never overlapped a call writing a header or a pixel buffer
\* it uses (or using one it writes) returns the status, invokes the callback as
\* often and delivers the output that it would on its own, from the inputs as
\* they were when it was invoked, however the steps of the two calls interleave.
C10_NoInterferenceWithoutSharing ==
    \A t \in Threads :
        LET c == call[t] IN
        Returned(c) /\ ~c.shared /\ ~HasNull(c) =>
            /\ c.status = ExpStatus(c)
            /\ c.ncb = ExpNcb(c)
            /\ c.ncb = 1 /\ c.plain => c.outVals = ExpOut(c)

C10_Witness ==
    /\ Returned(call["t1"]) /\ Returned(call["t2"])
    /\ call["t1"].overlap /\ call["t2"].overlap
    /\ ~call["t1"].shared /\ ~call["t2"].shared
    /\ call["t1"].status = "OK" /\ call["t2"].status = "OK"
    /\ call["t1"].entry = "MergeMertens_Process"
    /\ call["t2"].entry = "PencilSketch"
    /\ HandlesOf(call["t1"]) \cap HandlesOf(call["t2"]) = {}

\* Two overlapping calls that do share a buffer PencilSketch writes: one of
\* them delivers something else than it would on its own.
InterferenceWhenShared ==
    \E t \in Threads :
        /\ Returned(call[t])
        /\ call[t].shared /\ call[t].plain /\ ~HasNull(call[t])
        /\ call[t].ncb = 1
        /\ call[t].outVals # ExpOut(call[t])

====
